---- MODULE Spec2Model ----
(***************************************************************************)
(* A model of miniocr's MiniOCR.ocr (src/miniocr/ocr.py): one call of      *)
(* ocr() as the main coroutine, the page tasks asyncio.gather runs under   *)
(* an asyncio.Semaphore, the scratch directory of the call, and the        *)
(* network requests (download, vision endpoint) the call makes.            *)
(* Strings are sequences of one-character strings, so that lower(),        *)
(* endswith(), split(), basename() and join() are computed, not assumed.   *)
(***************************************************************************)
EXTENDS Integers, Sequences, FiniteSets, TLC

\* ------------------------------------------------------------------ bounds
\* The largest number of pages / slides of an input document.
MaxPages == 3
\* The largest concurrency argument tried (0 is accepted by asyncio.Semaphore).
MaxConcurrency == 2

\* ------------------------------------------------------------- characters
Upper == <<"A","B","C","D","E","F","G","H","I","J","K","L","M",
           "N","O","P","Q","R","S","T","U","V","W","X","Y","Z">>
LowerLetters == <<"a","b","c","d","e","f","g","h","i","j","k","l","m",
                  "n","o","p","q","r","s","t","u","v","w","x","y","z">>
Digits == <<"0","1","2","3","4","5","6","7","8","9">>

\* str.lower() on one character.
LowerChar(c) ==
    IF \E k \in 1..Len(Upper) : Upper[k] = c
    THEN LowerLetters[CHOOSE k \in 1..Len(Upper) : Upper[k] = c]
    ELSE c

\* str.lower()
Lower(s) == [k \in 1..Len(s) |-> LowerChar(s[k])]

\* str.endswith(suffix)
EndsWith(s, suffix) ==
    /\ Len(s) >= Len(suffix)
    /\ SubSeq(s, Len(s) - Len(suffix) + 1, Len(s)) = suffix

\* str.endswith(tuple of suffixes)
EndsWithAny(s, suffixes) == \E x \in suffixes : EndsWith(s, x)

\* str.startswith(prefix)
StartsWith(s, prefix) ==
    /\ Len(s) >= Len(prefix)
    /\ SubSeq(s, 1, Len(prefix)) = prefix

\* The positions of character c in s.
Positions(s, c) == {k \in 1..Len(s) : s[k] = c}

Max(S) == CHOOSE x \in S : \A y \in S : y <= x
Min(S) == CHOOSE x \in S : \A y \in S : x <= y

\* url.split('?')[0]
SplitFirst(s, c) ==
    IF Positions(s, c) = {} THEN s ELSE SubSeq(s, 1, Min(Positions(s, c)) - 1)

\* os.path.basename
Basename(s) ==
    IF Positions(s, "/") = {} THEN s
    ELSE SubSeq(s, Max(Positions(s, "/")) + 1, Len(s))

\* os.path.join(a, b)
PathJoin(a, b) ==
    IF StartsWith(b, <<"/">>) THEN b
    ELSE IF a = <<>> \/ EndsWith(a, <<"/">>) THEN a \o b
    ELSE a \o <<"/">> \o b

\* os.path.splitext(name)[0]: the name up to its last dot, a leading dot apart.
SplitextRoot(name) ==
    LET dots == {k \in Positions(name, ".") :
                    \E j \in 1..(k - 1) : name[j] # "."}
    IN  IF dots = {} THEN name ELSE SubSeq(name, 1, Max(dots) - 1)

\* ------------------------------------------------------- string constants
HttpPrefix == <<"h","t","t","p",":","/","/">>
HttpsPrefix == <<"h","t","t","p","s",":","/","/">>
ExtPdf == <<".","p","d","f">>
ExtPptx == <<".","p","p","t","x">>
ExtPng == <<".","p","n","g">>
ExtMd == <<".","m","d">>
image_extensions ==
    { ExtPng, <<".","j","p","g">>, <<".","j","p","e","g">>, <<".","g","i","f">>,
      <<".","b","m","p">>, <<".","t","i","f","f">>, <<".","w","e","b","p">> }
DefaultName == <<"d","o","c","u","m","e","n","t">>
PagePrefix == <<"p","a","g","e","_">>
SlidePrefix == <<"s","l","i","d","e","_">>
Separator == <<"\n","\n">>
\* The scratch directory tempfile.TemporaryDirectory() creates.
temp_dir == <<"/","t">>

is_image_file(file_path) == EndsWithAny(Lower(file_path), image_extensions)
is_pdf_file(file_path) == EndsWith(Lower(file_path), ExtPdf)
is_pptx_file(file_path) == EndsWith(Lower(file_path), ExtPptx)

\* download_file's test of the input and the name it saves the download under.
IsUrl(url) == StartsWith(url, HttpPrefix) \/ StartsWith(url, HttpsPrefix)
DownloadName(url) ==
    LET base == Basename(SplitFirst(url, "?"))
    IN  IF base = <<>> THEN DefaultName ELSE base
DownloadPath(url) == PathJoin(temp_dir, DownloadName(url))

\* f"page_{i+1}.png" / f"slide_{i+1}.png" in the scratch directory (k = i+1).
PageImage(k) == PathJoin(temp_dir, PagePrefix \o <<Digits[k + 1]>> \o ExtPng)
SlideImage(k) == PathJoin(temp_dir, SlidePrefix \o <<Digits[k + 1]>> \o ExtPng)

\* A path lies in the scratch directory.
InScratch(path) == StartsWith(path, temp_dir \o <<"/">>)

\* ------------------------------------------------------------------ inputs
LocalPdf == <<"a",".","p","d","f">>
LocalPdfUpper == <<"b",".","P","D","F">>
LocalDeck == <<"d",".","p","p","t","x">>
LocalImage == <<"i",".","p","n","g">>
LocalText == <<"n",".","t","x","t">>
UrlPdf == HttpPrefix \o <<"h","/">> \o LocalPdf
UrlText == HttpsPrefix \o <<"h","/">> \o LocalText
UrlImageQuery == HttpPrefix \o <<"h","/">> \o LocalImage \o <<"?",".","p","d","f">>
UrlNoName == HttpPrefix \o <<"h","/">>

\* All sequences of booleans of length 0..n: per slide, whether it has text.
RECURSIVE BoolSeqs(_)
BoolSeqs(n) ==
    IF n = 0 THEN {<<>>}
    ELSE LET shorter == BoolSeqs(n - 1)
         IN  shorter \cup {Append(s, b) : s \in {x \in shorter : Len(x) = n - 1},
                                          b \in BOOLEAN}

AllText(n) == [k \in 1..n |-> TRUE]

\* The input documents: a path or URL, and the pages or slides of the file
\* (TRUE: the slide has a shape with non-empty text).
Documents ==
    {[path |-> p, slides |-> AllText(n)] :
        p \in {LocalPdf, LocalPdfUpper, UrlPdf}, n \in 0..MaxPages}
    \cup {[path |-> LocalDeck, slides |-> s] : s \in BoolSeqs(MaxPages)}
    \cup {[path |-> p, slides |-> AllText(1)] :
        p \in {LocalImage, UrlImageQuery, LocalText, UrlText, UrlNoName}}

\* ------------------------------------------------------------------- state
VARIABLES
    doc,          \* the input: file_path and what the file holds
    concurrency,  \* ocr(concurrency=)
    output_dir,   \* ocr(output_dir=): TRUE when a directory is given
    cleanup,      \* ocr(cleanup=)
    pc,           \* the position of the ocr() coroutine
    local_path,   \* local_path of ocr()
    dirExists,    \* the scratch directory exists
    files,        \* the files in the scratch directory
    conv,         \* pptx_to_images: what the conversion tool did
    fallbackRuns, \* how many times pptx_to_images_fallback was entered
    image_paths,  \* image_paths of ocr()
    tstate,       \* per page task: waiting, reading, calling, done, failed
    ret,          \* per page task: the text process_image returned
    sem,          \* semaphore._value
    order,        \* the page tasks that finished, in the order they finished
    gatherExc,    \* the exception asyncio.gather propagates (the first raised)
    results,      \* results of ocr(): the list gather returned
    rendered,     \* image_paths has been assigned
    downloads,    \* download requests made
    calls,        \* per page: vision-endpoint requests made
    outcome,      \* how ocr() ended and what it returned
    outputs       \* markdown files written to the output directory

vars == <<doc, concurrency, output_dir, cleanup, pc, local_path, dirExists, files,
          conv, fallbackRuns, image_paths, tstate, ret, sem, order, gatherExc,
          results, rendered, downloads, calls, outcome, outputs>>

inputs == <<doc, concurrency, output_dir, cleanup>>

NoExc == [type |-> "none", page |-> 0]
Exc(t, i) == [type |-> t, page |-> i]

NoOutcome == [kind |-> "none", error |-> NoExc, content |-> <<>>, pages |-> 0,
              file_name |-> <<>>]

\* The text the vision endpoint returns for the image at a path.
Text(path) == <<"#">> \o path

N == Len(image_paths)
Pages == 1..N

Init ==
    /\ doc \in Documents
    /\ concurrency \in 0..MaxConcurrency
    /\ output_dir \in BOOLEAN
    /\ cleanup \in BOOLEAN
    /\ pc = "start"
    /\ local_path = <<>>
    /\ dirExists = FALSE
    /\ files = {}
    /\ conv = "none"
    /\ fallbackRuns = 0
    /\ image_paths = <<>>
    /\ tstate = <<>>
    /\ ret = <<>>
    /\ sem = 0
    /\ order = <<>>
    /\ gatherExc = NoExc
    /\ results = <<>>
    /\ rendered = FALSE
    /\ downloads = 0
    /\ calls = <<>>
    /\ outcome = NoOutcome
    /\ outputs = {}


\* ------------------------------------------------- leaving the with block
\* tempfile.TemporaryDirectory().__exit__: the scratch directory is removed,
\* whatever the cleanup argument says (ocr() never reads it).
ExitScopeLeak == UNCHANGED <<dirExists, files>>

ExitScope ==
    /\ dirExists' = FALSE
    /\ files' = {}

\* ocr() raises e: the with block is left, nothing is returned.
Raise(e) ==
    /\ pc' = "done"
    /\ outcome' = [NoOutcome EXCEPT !.kind = "raised", !.error = e]
    /\ ExitScope

\* -------------------------------------------------------------- semaphore
\* async with semaphore, as the tasks gather() has just created run their
\* first step in list order: the first c tasks take a slot, the rest queue.
AdmittedUnbounded(n, c) == [k \in 1..n |-> "reading"]

Admitted(n, c) == [k \in 1..n |-> IF k <= c THEN "reading" ELSE "waiting"]

SlotsLeft(n, c) == IF n <= c THEN c - n ELSE 0

\* The page image task k sends: process_with_semaphore(img_path) gets its own
\* path as an argument.
TaskImageLateBound(k) == image_paths[Len(image_paths)]

TaskImage(k) == image_paths[k]

\* The page an image path was rendered for.
PageOf(path) == CHOOSE j \in 1..Len(image_paths) : image_paths[j] = path

\* semaphore.release() as task k leaves async with in state s: the slot goes to
\* the longest-waiting task, or back to the semaphore when none waits.
Waiting(ts) == {k \in 1..Len(ts) : ts[k] = "waiting"}

ReleasedLastWaiter(ts, k, s) ==
    LET left == [ts EXCEPT ![k] = s]
    IN  IF Waiting(ts) = {} THEN left
        ELSE [left EXCEPT ![Max(Waiting(ts))] = "reading"]

ReleasedNoWake(ts, k, s) == [ts EXCEPT ![k] = s]

Released(ts, k, s) ==
    LET left == [ts EXCEPT ![k] = s]
    IN  IF Waiting(ts) = {} THEN left
        ELSE [left EXCEPT ![Min(Waiting(ts))] = "reading"]

ReleasedValue(ts, v) == IF Waiting(ts) = {} THEN v + 1 ELSE v

\* tasks = [...]; results = await asyncio.gather(*tasks): the semaphore is
\* made, the tasks start and ocr() waits for them.
StartGather(paths) ==
    /\ image_paths' = paths
    /\ tstate' = Admitted(Len(paths), concurrency)
    /\ sem' = SlotsLeft(Len(paths), concurrency)
    /\ ret' = [k \in 1..Len(paths) |-> <<>>]
    /\ calls' = [k \in 1..Len(paths) |-> 0]
    /\ order' = <<>>
    /\ gatherExc' = NoExc
    /\ rendered' = TRUE
    /\ pc' = "gather"

NoGather ==
    UNCHANGED <<image_paths, tstate, sem, ret, calls, order, gatherExc, rendered>>

\* ------------------------------------------------------------ ocr(): entry
\* with tempfile.TemporaryDirectory() as temp_dir; download_file for a path
\* that is no URL returns it unchanged.
EnterLocal ==
    /\ pc = "start"
    /\ ~IsUrl(doc.path)
    /\ dirExists' = TRUE
    /\ local_path' = doc.path
    /\ pc' = "classify"
    /\ NoGather
    /\ UNCHANGED <<inputs, results, files, conv, fallbackRuns, downloads, outcome, outputs>>

\* download_file for a URL: session.get(url) is sent.
EnterUrl ==
    /\ pc = "start"
    /\ IsUrl(doc.path)
    /\ dirExists' = TRUE
    /\ downloads' = downloads + 1
    /\ pc' = "download"
    /\ NoGather
    /\ UNCHANGED <<inputs, results, local_path, files, conv, fallbackRuns, outcome, outputs>>

\* The response is written to temp_dir/filename, which becomes local_path.
DownloadDone ==
    /\ pc = "download"
    /\ files' = files \cup {DownloadPath(doc.path)}
    /\ local_path' = DownloadPath(doc.path)
    /\ pc' = "classify"
    /\ NoGather
    /\ UNCHANGED <<inputs, results, dirExists, conv, fallbackRuns, downloads, outcome, outputs>>

\* The request or the transfer fails: the error leaves ocr().
DownloadFail ==
    /\ pc = "download"
    /\ Raise(Exc("ClientError", 0))
    /\ NoGather
    /\ UNCHANGED <<inputs, results, local_path, conv, fallbackRuns, downloads, outputs>>

\* --------------------------------------------------- ocr(): the file type
KindDefaultImage(path) ==
    IF is_pptx_file(path) THEN "pptx"
    ELSE IF is_pdf_file(path) THEN "pdf"
    ELSE "image"

Kind(path) ==
    IF is_pptx_file(path) THEN "pptx"
    ELSE IF is_image_file(path) THEN "image"
    ELSE IF is_pdf_file(path) THEN "pdf"
    ELSE "unsupported"

\* else: raise ValueError(f"Unsupported file type: {local_path}")
ClassifyUnsupported ==
    /\ pc = "classify"
    /\ Kind(local_path) = "unsupported"
    /\ Raise(Exc("ValueError", 0))
    /\ NoGather
    /\ UNCHANGED <<inputs, results, local_path, conv, fallbackRuns, downloads, outputs>>

\* elif self.is_image_file(local_path): image_paths = [local_path]
ClassifyImage ==
    /\ pc = "classify"
    /\ Kind(local_path) = "image"
    /\ StartGather(<<local_path>>)
    /\ UNCHANGED <<inputs, results, local_path, dirExists, files, conv, fallbackRuns,
                   downloads, outcome, outputs>>

\* pdf_to_images: one page_{i+1}.png per page, in document order.
PdfImages(n) == [k \in 1..n |-> PageImage(k)]

RenderPdf ==
    /\ pc = "classify"
    /\ Kind(local_path) = "pdf"
    /\ files' = files \cup {PageImage(k) : k \in 1..Len(doc.slides)}
    /\ StartGather(PdfImages(Len(doc.slides)))
    /\ UNCHANGED <<inputs, results, local_path, dirExists, conv, fallbackRuns,
                   downloads, outcome, outputs>>

\* convert_from_path raises (no such file, a broken PDF, poppler missing).
RenderPdfFail ==
    /\ pc = "classify"
    /\ Kind(local_path) = "pdf"
    /\ Raise(Exc("PDFError", 0))
    /\ NoGather
    /\ UNCHANGED <<inputs, results, local_path, conv, fallbackRuns, downloads, outputs>>


\* ------------------------------------------------- pptx_to_images (chain)
\* find_libreoffice_executable on a non-Windows system: the name found in
\* PATH, else the first common installation path that is an executable
\* file, else executable_names[0] as a last resort; never None.
find_libreoffice_executable(inPath, atCommonPath) ==
    IF inPath THEN "soffice"
    ELSE IF atCommonPath THEN "/usr/bin/soffice"
    ELSE "soffice"

\* What subprocess.run of the conversion can do when the executable exists.
RunOutcomes == {"timeout", "nonzero_exit", "no_output", "run_error", "ok"}

\* pdf_path = os.path.join(temp_dir, f"{filename_bare}.pdf")
ConvertedPdf(pptx_path) ==
    PathJoin(temp_dir, SplitextRoot(Basename(pptx_path)) \o ExtPdf)

\* if self.is_pptx_file(local_path): image_paths = await self.pptx_to_images(...)
ClassifyDeck ==
    /\ pc = "classify"
    /\ Kind(local_path) = "pptx"
    /\ pc' = "TryNativeConvert"
    /\ NoGather
    /\ UNCHANGED <<inputs, results, local_path, dirExists, files, conv, fallbackRuns,
                   downloads, outcome, outputs>>

\* The native-conversion stage: the executable is looked up and run with
\* timeout=60. Running a missing executable raises FileNotFoundError, which
\* the chain's except Exception catches like any other error of the stage.
NativeResult(inPath, atCommonPath, run) ==
    IF find_libreoffice_executable(inPath, atCommonPath) = ""
    THEN "no_executable"
    ELSE IF ~inPath /\ ~atCommonPath THEN "not_found"
    ELSE run

\* The results that are exceptions no inner handler takes: FileNotFoundError
\* for a missing executable, any other error of subprocess.run. (The timeout
\* has its own except subprocess.TimeoutExpired.)
StageExceptions == {"not_found", "run_error"}

\* except Exception as e, around the whole chain: every exception of the
\* conversion and of the rendering is caught.
ChainCatchesNothing(result) == FALSE

ChainCatches(result) == TRUE

\* The stage after the conversion: the converted PDF is rendered only when
\* the tool exited with code 0 and the PDF exists; else the text fallback.
NextStageIgnoringExitCode(result) ==
    IF result \in {"ok", "nonzero_exit"} THEN "TryRenderConvertedPdf"
    ELSE "TextFallback"

NextStage(result) ==
    IF result = "ok" THEN "TryRenderConvertedPdf" ELSE "TextFallback"

TryNativeConvert ==
    /\ pc = "TryNativeConvert"
    /\ \E inPath \in BOOLEAN, atCommonPath \in BOOLEAN, run \in RunOutcomes :
        LET result == NativeResult(inPath, atCommonPath, run)
        IN  /\ conv' = result
            /\ IF result \in StageExceptions /\ ~ChainCatches(result)
               THEN Raise(Exc("ConversionError", 0))
               ELSE /\ pc' = NextStage(result)
                    /\ files' = IF result = "ok"
                                THEN files \cup {ConvertedPdf(local_path)}
                                ELSE files
                    /\ UNCHANGED <<dirExists, outcome>>
    /\ NoGather
    /\ UNCHANGED <<inputs, results, local_path, fallbackRuns, downloads, outputs>>

\* convert_from_bytes of the converted PDF: one slide_{i+1}.png per slide.
ConvertedImages(n) == [k \in 1..n |-> SlideImage(k)]

TryRenderConvertedPdf ==
    /\ pc = "TryRenderConvertedPdf"
    /\ ConvertedPdf(local_path) \in files
    /\ files' = files \cup {SlideImage(k) : k \in 1..Len(doc.slides)}
    /\ StartGather(ConvertedImages(Len(doc.slides)))
    /\ UNCHANGED <<inputs, results, local_path, dirExists, conv, fallbackRuns,
                   downloads, outcome, outputs>>

\* Reading or rasterizing the converted PDF raises: except Exception.
RenderConvertedFail ==
    /\ pc = "TryRenderConvertedPdf"
    /\ conv' = "render_error"
    /\ IF ChainCatches("render_error")
       THEN /\ pc' = "TextFallback"
            /\ UNCHANGED <<dirExists, files, outcome>>
       ELSE Raise(Exc("ConversionError", 0))
    /\ NoGather
    /\ UNCHANGED <<inputs, results, local_path, fallbackRuns, downloads, outputs>>

\* pptx_to_images_fallback: a placeholder slide_{i+1}.png for every slide with
\* non-empty text, none for a slide without.
RECURSIVE FallbackImagesFrom(_, _)
FallbackImagesFrom(slides, k) ==
    IF k > Len(slides) THEN <<>>
    ELSE (IF slides[k] THEN <<SlideImage(k)>> ELSE <<>>)
         \o FallbackImagesFrom(slides, k + 1)

FallbackImages(slides) == FallbackImagesFrom(slides, 1)

TextFallback ==
    /\ pc = "TextFallback"
    /\ fallbackRuns' = fallbackRuns + 1
    /\ files' = files \cup {FallbackImages(doc.slides)[k] :
                               k \in 1..Len(FallbackImages(doc.slides))}
    /\ StartGather(FallbackImages(doc.slides))
    /\ UNCHANGED <<inputs, results, local_path, dirExists, conv, downloads, outcome, outputs>>

\* The fallback is called inside the try block after a timeout, a non-zero
\* exit or a missing PDF (and for a missing executable name), and from the
\* except Exception handler otherwise.
FallbackInsideTry ==
    /\ conv \in {"no_executable", "timeout", "nonzero_exit", "no_output"}
    /\ fallbackRuns = 0

\* The fallback raises (Presentation(pptx_path), img.save). Raised inside the
\* try block, the exception reaches except Exception, whose handler calls the
\* fallback again; raised in the handler, it leaves pptx_to_images and ocr().
TextFallbackFail ==
    /\ pc = "TextFallback"
    /\ fallbackRuns' = fallbackRuns + 1
    /\ IF FallbackInsideTry /\ ChainCatches("fallback_error")
       THEN UNCHANGED <<pc, dirExists, files, outcome>>
       ELSE Raise(Exc("PackageError", 0))
    /\ NoGather
    /\ UNCHANGED <<inputs, results, local_path, conv, downloads, outputs>>

\* --------------------------------------------------------- the page tasks
\* aiofiles.open(image_path, "rb") succeeds when the file is there.
Readable(path) == InScratch(path) => (dirExists /\ path \in files)

\* gather() takes the first exception a task raises, while ocr() awaits it.
LastException(e) == IF pc = "gather" THEN e ELSE gatherExc

FirstException(e) == IF pc = "gather" /\ gatherExc = NoExc THEN e ELSE gatherExc

\* Task k leaves async with by an exception e: the slot is released as on a
\* return, the exception goes to gather(), the sibling tasks are left alone.
FailTaskNoRelease(k, e) ==
    /\ tstate' = [tstate EXCEPT ![k] = "failed"]
    /\ sem' = sem
    /\ order' = Append(order, k)
    /\ gatherExc' = FirstException(e)
    /\ UNCHANGED ret

FailTaskCancelSiblings(k, e) ==
    /\ tstate' = [j \in 1..Len(tstate) |->
                      IF j = k THEN "failed"
                      ELSE IF tstate[j] \in {"waiting", "reading", "calling"}
                      THEN "cancelled"
                      ELSE tstate[j]]
    /\ sem' = concurrency
    /\ order' = Append(order, k)
    /\ gatherExc' = FirstException(e)
    /\ UNCHANGED ret

FailTask(k, e) ==
    /\ tstate' = Released(tstate, k, "failed")
    /\ sem' = ReleasedValue(tstate, sem)
    /\ order' = Append(order, k)
    /\ gatherExc' = FirstException(e)
    /\ UNCHANGED ret

\* process_image: the image is read and encoded, the request is sent.
ReadImage(k) ==
    /\ tstate[k] = "reading"
    /\ Readable(TaskImage(k))
    /\ tstate' = [tstate EXCEPT ![k] = "calling"]
    /\ calls' = [calls EXCEPT ![PageOf(TaskImage(k))] = @ + 1]
    /\ UNCHANGED <<inputs, results, pc, local_path, dirExists, files, conv, fallbackRuns,
                   image_paths, ret, sem, order, gatherExc, rendered, downloads,
                   outcome, outputs>>

\* process_image: the image file is gone, encode_image_to_base64 raises.
ReadImageFail(k) ==
    /\ tstate[k] = "reading"
    /\ ~Readable(TaskImage(k))
    /\ FailTask(k, Exc("FileNotFoundError", k))
    /\ UNCHANGED <<inputs, results, pc, local_path, dirExists, files, conv, fallbackRuns,
                   image_paths, rendered, downloads, calls, outcome, outputs>>

\* The endpoint answers: the task returns the text and releases its slot.
Respond(k) ==
    /\ tstate[k] = "calling"
    /\ ret' = [ret EXCEPT ![k] = Text(TaskImage(k))]
    /\ tstate' = Released(tstate, k, "done")
    /\ sem' = ReleasedValue(tstate, sem)
    /\ order' = Append(order, k)
    /\ UNCHANGED <<inputs, results, pc, local_path, dirExists, files, conv, fallbackRuns,
                   image_paths, gatherExc, rendered, downloads, calls, outcome,
                   outputs>>

\* The request fails: the task raises and releases its slot.
RespondError(k) ==
    /\ tstate[k] = "calling"
    /\ FailTask(k, Exc("APIError", k))
    /\ UNCHANGED <<inputs, results, pc, local_path, dirExists, files, conv, fallbackRuns,
                   image_paths, rendered, downloads, calls, outcome, outputs>>

\* ------------------------------------------------- gather and the result
\* The list asyncio.gather returns: the tasks' results in the order of the
\* tasks, whatever order they finished in.
ResultsInCompletionOrder == [k \in 1..N |-> ret[order[k]]]

GatherResults == [k \in 1..N |-> ret[k]]

\* gather()'s future resolves with the results once every task has returned
\* and none has raised (return_exceptions is left False).
GatherDoneCollectingErrors == \A k \in Pages : tstate[k] \in {"done", "failed"}

GatherDone ==
    /\ gatherExc = NoExc
    /\ \A k \in Pages : tstate[k] = "done"

\* "\n\n".join(results)
RECURSIVE Join(_)
Join(texts) ==
    IF Len(texts) = 0 THEN <<>>
    ELSE IF Len(texts) = 1 THEN texts[1]
    ELSE texts[1] \o Separator \o Join(Tail(texts))

\* The output file: <output_dir>/<basename without extension>.md
OutputName(path) == SplitextRoot(Basename(path)) \o ExtMd

\* What ocr() writes under output_dir.
Written(content) ==
    IF output_dir THEN {[name |-> OutputName(local_path), content |-> content]}
    ELSE {}

\* await asyncio.gather(*tasks) raises the first exception of a task.
GatherRaise ==
    /\ pc = "gather"
    /\ gatherExc # NoExc
    /\ Raise(gatherExc)
    /\ NoGather
    /\ UNCHANGED <<inputs, results, local_path, conv, fallbackRuns, downloads, outputs>>

\* All tasks returned: join, write the markdown file, return the result.
Assemble ==
    /\ pc = "gather"
    /\ N > 0
    /\ GatherDone
    /\ results' = GatherResults
    /\ LET markdown_content ==
               IF Len(results') > 1 THEN Join(results') ELSE results'[1]
       IN  /\ outputs' = outputs \cup Written(markdown_content)
           /\ outcome' = [kind |-> "returned", error |-> NoExc,
                          content |-> markdown_content, pages |-> Len(results'),
                          file_name |-> Basename(local_path)]
    /\ pc' = "done"
    /\ ExitScope
    /\ NoGather
    /\ UNCHANGED <<inputs, local_path, conv, fallbackRuns, downloads>>

\* No page was rendered: gather() returns [], and results[0] raises IndexError.
AssembleEmpty ==
    /\ pc = "gather"
    /\ N = 0
    /\ Raise(Exc("IndexError", 0))
    /\ NoGather
    /\ UNCHANGED <<inputs, results, local_path, conv, fallbackRuns, downloads, outputs>>

Next ==
    \/ EnterLocal
    \/ EnterUrl
    \/ DownloadDone
    \/ DownloadFail
    \/ ClassifyUnsupported
    \/ ClassifyImage
    \/ RenderPdf
    \/ RenderPdfFail
    \/ ClassifyDeck
    \/ TryNativeConvert
    \/ TryRenderConvertedPdf
    \/ RenderConvertedFail
    \/ TextFallback
    \/ TextFallbackFail
    \/ \E k \in Pages : ReadImage(k)
    \/ \E k \in Pages : ReadImageFail(k)
    \/ \E k \in Pages : Respond(k)
    \/ \E k \in Pages : RespondError(k)
    \/ GatherRaise
    \/ Assemble
    \/ AssembleEmpty

Spec == Init /\ [][Next]_vars

\* The steps of page task k, and the steps of the ocr() coroutine itself.
TaskStep(k) ==
    /\ k \in Pages
    /\ \/ ReadImage(k)
       \/ ReadImageFail(k)
       \/ Respond(k)
       \/ RespondError(k)

MainStep ==
    \/ EnterLocal \/ EnterUrl \/ DownloadDone \/ DownloadFail
    \/ ClassifyUnsupported \/ ClassifyImage \/ RenderPdf \/ RenderPdfFail
    \/ ClassifyDeck \/ TryNativeConvert \/ TryRenderConvertedPdf
    \/ RenderConvertedFail \/ TextFallback \/ TextFallbackFail
    \/ GatherRaise \/ Assemble \/ AssembleEmpty

\* The event loop runs every coroutine that can go on, every file read and
\* every request (download, conversion, vision endpoint) ends at some time.
\* (The output directory and the cleanup flag, which decide no step, are fixed.)
FairInit == Init /\ output_dir /\ cleanup

FairSpec ==
    /\ FairInit
    /\ [][Next]_vars
    /\ WF_vars(MainStep)
    /\ \A k \in 1..MaxPages : WF_vars(TaskStep(k))


\* ------------------------------------------------------------ observations
\* The page tasks inside process_image: holding a slot, reading or calling.
InFlight == Cardinality({k \in Pages : tstate[k] \in {"reading", "calling"}})

Failed == {k \in Pages : tstate[k] = "failed"}

AllTranscribed == rendered /\ \A k \in Pages : tstate[k] = "done"

\* The transcription of every rendered page, in page order.
PageTexts == [k \in Pages |-> Text(image_paths[k])]

\* content.split("\n\n"): the segments of a joined content.
RECURSIVE Segments(_)
Segments(s) ==
    LET seps == {q \in 1..(Len(s) - 1) : s[q] = "\n" /\ s[q + 1] = "\n"}
    IN  IF seps = {} THEN <<s>>
        ELSE <<SubSeq(s, 1, Min(seps) - 1)>>
             \o Segments(SubSeq(s, Min(seps) + 2, Len(s)))

\* The file name the type is decided on has no recognized extension.
FileNameOf(path) == IF IsUrl(path) THEN DownloadName(path) ELSE Basename(path)

UnsupportedName(path) ==
    /\ ~is_pptx_file(FileNameOf(path))
    /\ ~is_image_file(FileNameOf(path))
    /\ ~is_pdf_file(FileNameOf(path))

TotalCalls == Cardinality({k \in Pages : calls[k] > 0})

NonBlank(slides) == Cardinality({k \in 1..Len(slides) : slides[k]})

\* The failed tasks in the order they failed, and the exception of a task:
\* one that failed before sending its request failed reading its image.
FailedOrder == SelectSeq(order, LAMBDA k : tstate[k] = "failed")

TaskException(k) ==
    Exc(IF calls[k] = 0 THEN "FileNotFoundError" ELSE "APIError", k)

\* ------------------------------------------------------------------ claims
\* C1: at every moment the number of process_image calls in flight is at most
\* the concurrency limit, for every number of pages and every interleaving.
C1_ConcurrencyBound == InFlight <= concurrency

\* C1 witness: the limit is reached while another page waits for a slot.
C1_Witness ==
    /\ concurrency >= 2
    /\ InFlight = concurrency
    /\ Waiting(tstate) # {}
    /\ \E k \in Pages : tstate[k] = "calling"

\* C2: whatever order the page tasks finish in, the i-th result is the
\* transcription of the i-th rendered page and the content lists the page
\* texts in ascending page order.
C2_OrderPreserved ==
    outcome.kind = "returned" =>
        /\ results = PageTexts
        /\ Segments(outcome.content) = PageTexts

\* C2 witness: ocr() returned although a later page finished before an earlier.
C2_Witness ==
    /\ outcome.kind = "returned"
    /\ \E a, b \in 1..Len(order) : a < b /\ order[a] > order[b]

\* C3: a document that renders to N pages, all transcribed, gives pages = N
\* and a content of exactly the N page texts in order, joined by a blank
\* line; a single page's text is returned verbatim.
C3_AllPagesReturned ==
    (pc = "done" /\ AllTranscribed) =>
        /\ outcome.kind = "returned"
        /\ outcome.pages = N
        /\ N >= 1 => Segments(outcome.content) = PageTexts
        /\ N = 1 => outcome.content = Text(image_paths[1])

\* C4: when a page's transcription fails the call fails: it raises, returns
\* nothing, surfaces no sibling's text and writes no markdown file.
C4_AllOrNothing ==
    Failed # {} =>
        /\ outcome.kind # "returned"
        /\ outputs = {}
        /\ pc = "done" => (outcome.kind = "raised" /\ outcome.content = <<>>
                           /\ outcome.pages = 0 /\ results = <<>>)

\* C4 witness: the call raised with an output directory given, one page
\* failed and a sibling page had been transcribed.
C4_Witness ==
    /\ pc = "done"
    /\ output_dir
    /\ Failed # {}
    /\ \E k \in Pages : tstate[k] = "done" /\ ret[k] = Text(image_paths[k])

\* C5: with the conversion tool unavailable, ocr() of a slide deck returns
\* normally with one segment per slide that has text and none for a blank
\* slide, whatever the number of slides with text.
C5_FallbackSegments ==
    (pc = "done" /\ conv = "not_found" /\ AllTranscribed) =>
        /\ outcome.kind = "returned"
        /\ outcome.pages = NonBlank(doc.slides)
        /\ outcome.pages >= 1 => Len(Segments(outcome.content)) = outcome.pages

\* C6 as claimed: for a path or URL whose file name has no recognized
\* extension, ocr() fails with the unsupported-format error and no download
\* request and no vision-endpoint request is made in the run.
C6_NoNetworkBeforeReject ==
    UnsupportedName(doc.path) =>
        /\ downloads = 0
        /\ TotalCalls = 0
        /\ pc = "done" => outcome.error = Exc("ValueError", 0)

\* C6 amended: no vision-endpoint request is ever made for such an input; a
\* local path fails with the unsupported-format error without any network
\* request; a URL is downloaded first (one request), and the call then fails
\* with the unsupported-format error, or with the download's own error.
C6_RejectAfterDownload ==
    UnsupportedName(doc.path) =>
        /\ TotalCalls = 0
        /\ ~rendered
        /\ outcome.kind # "returned"
        /\ ~IsUrl(doc.path) =>
              /\ downloads = 0
              /\ pc = "done" => outcome.error = Exc("ValueError", 0)
        /\ IsUrl(doc.path) =>
              /\ pc # "start" => downloads = 1
              /\ pc = "done" =>
                    outcome.error \in {Exc("ValueError", 0), Exc("ClientError", 0)}
              /\ pc = "classify" => local_path \in files

\* C6 witness: a URL with an unsupported file name was rejected after its
\* download request.
C6_Witness ==
    /\ UnsupportedName(doc.path)
    /\ IsUrl(doc.path)
    /\ pc = "done"
    /\ outcome.error = Exc("ValueError", 0)
    /\ downloads = 1

\* C7: with cleanup enabled the scratch directory is gone once ocr() has
\* completed, on every exit path.
C7_ScratchRemoved ==
    (cleanup /\ pc = "done") => (~dirExists /\ files = {})

\* C7 witness: with cleanup enabled the call raised on a failed page while
\* rendered images had been written and a sibling was still in flight.
C7_Witness ==
    /\ cleanup
    /\ pc = "done"
    /\ outcome.error.type = "APIError"
    /\ \E k \in Pages : InScratch(image_paths[k]) /\ tstate[k] = "calling"

\* C8: with cleanup disabled the scratch directory and the page images
\* rendered into it still exist after ocr() has completed.
C8_ScratchKept ==
    (~cleanup /\ pc = "done" /\ \E k \in Pages : InScratch(image_paths[k])) =>
        /\ dirExists
        /\ \A k \in Pages : InScratch(image_paths[k]) => image_paths[k] \in files

\* C9: a completed call either returned an outcome whose content holds the
\* text of every rendered page, or raised the error of the first failure of
\* the run; it never returns with a page's text missing.
C9_CompleteOrFirstError ==
    pc = "done" =>
        \/ /\ outcome.kind = "returned"
           /\ outcome.error = NoExc
           /\ FailedOrder = <<>>
           /\ outcome.pages = N
           /\ \A k \in Pages :
                 \E j \in 1..Len(Segments(outcome.content)) :
                     Segments(outcome.content)[j] = Text(image_paths[k])
        \/ /\ outcome.kind = "raised"
           /\ outcome.content = <<>>
           /\ outcome.error # NoExc
           /\ IF FailedOrder # <<>>
              THEN outcome.error = TaskException(Head(FailedOrder))
              ELSE outcome.error.page = 0

\* C9 witness: the call raised the error of the page that failed first, which
\* is not the lowest-numbered page that failed.
C9_Witness ==
    /\ pc = "done"
    /\ outcome.kind = "raised"
    /\ \E k \in Failed : k < outcome.error.page

\* C10: while no transcription has failed, every page whose task reached the
\* endpoint was sent exactly once and no other page was sent, so a run that
\* transcribes all N pages makes exactly N requests, one per page.
C10_OneRequestPerPage ==
    Failed = {} =>
        /\ \A k \in Pages :
              calls[k] = IF tstate[k] \in {"calling", "done"} THEN 1 ELSE 0
        /\ AllTranscribed => TotalCalls = N

\* C10 witness: a PDF of 3 pages under a limit of 2 was returned.
C10_Witness ==
    /\ outcome.kind = "returned"
    /\ Kind(local_path) = "pdf"
    /\ N = 3
    /\ concurrency = 2
    /\ \A k \in Pages : calls[k] = 1


\* ------------------------------------------------- claims on the semaphore
Finished == {k \in Pages : tstate[k] \in {"done", "failed"}}

\* C11: once the semaphore exists, the free slots plus the tasks holding a
\* slot equal the concurrency limit in every state, a failed attempt having
\* released its slot like a successful one; when every task has finished
\* all the slots are free again.
C11_SlotsConserved ==
    rendered =>
        /\ sem >= 0
        /\ sem + InFlight = concurrency
        /\ Finished = Pages => sem = concurrency

\* C11 witness: every task has finished, one by raising and one by
\* returning, and all the slots are free.
C11_Witness ==
    /\ rendered
    /\ concurrency >= 1
    /\ Finished = Pages
    /\ Failed # {}
    /\ \E k \in Pages : tstate[k] = "done"
    /\ sem = concurrency


\* Page task k waits for a slot of the semaphore.
Queued(k) == k \in Pages /\ tstate[k] = "waiting"

\* C12 as claimed: every remote call ending at some time, every queued page
\* is admitted at some time and ocr() completes at some time, for every
\* number of pages and every limit asyncio.Semaphore accepts.
C12_AlwaysCompletes ==
    /\ <>(pc = "done")
    /\ \A k \in 1..MaxPages :
          Queued(k) ~> ~Queued(k)

\* C12 amended: the same for every concurrency limit of at least 1 (with a
\* limit of 0, which asyncio.Semaphore accepts, no page is ever admitted).
C12_CompletesWithPositiveLimit ==
    (concurrency >= 1) =>
        /\ <>(pc = "done")
        /\ \A k \in 1..MaxPages :
              Queued(k) ~> ~Queued(k)

\* C12 witness: ocr() returned for more pages than the limit, so that pages
\* had queued for a slot and were admitted.
C12_Witness ==
    /\ concurrency >= 1
    /\ N > concurrency
    /\ outcome.kind = "returned"


\* C13 as claimed: for pages i < j, page j does not start its remote call
\* before page i has started its own.
C13_CallsStartInPageOrder ==
    \A i, j \in Pages : (i < j /\ calls[j] > 0) => calls[i] > 0

\* C13 amended: pages take their slot in ascending page order: for i < j,
\* page j is not admitted while page i still waits. The requests themselves
\* are sent in any order, each task reading its image first, and the
\* completion order is unconstrained.
C13_AdmittedInPageOrder ==
    \A i, j \in Pages :
        (i < j /\ tstate[j] # "waiting") => tstate[i] # "waiting"

\* C13 witness: a page that had queued holds a slot, after two pages finished
\* in descending order.
C13_Witness ==
    /\ concurrency >= 1
    /\ \E j \in Pages : j > concurrency /\ tstate[j] \in {"reading", "calling"}
    /\ Len(order) >= 2
    /\ order[1] > order[2]


\* ------------------------------------------- claims on the slide-deck chain
ToolFailures == {"not_found", "timeout", "nonzero_exit", "no_output"}

ReachedFallback == pc = "TextFallback" \/ fallbackRuns >= 1

\* C14: the chain renders the converted PDF only after the tool exited with
\* code 0 and left the PDF; after a missing executable, a timeout, a non-zero
\* exit or a missing PDF it goes to the text fallback, never to the
\* rendering, and the pages it returns are those of the text fallback.
C14_RenderOnlyAfterSuccess ==
    /\ pc = "TryRenderConvertedPdf" =>
          (conv = "ok" /\ ConvertedPdf(local_path) \in files)
    /\ (rendered /\ Kind(local_path) = "pptx" /\ fallbackRuns = 0) =>
          (conv = "ok" /\ image_paths = ConvertedImages(Len(doc.slides)))
    /\ conv \in ToolFailures =>
          /\ pc # "TryNativeConvert"
          /\ pc # "TryRenderConvertedPdf"
          /\ ReachedFallback
          /\ rendered => image_paths = FallbackImages(doc.slides)

\* C14 witness: after a non-zero exit the pages are the placeholder images of
\* the slides with text, fewer than the slides of the deck.
C14_Witness ==
    /\ conv = "nonzero_exit"
    /\ rendered
    /\ image_paths = FallbackImages(doc.slides)
    /\ N >= 1
    /\ N < Len(doc.slides)

\* C15: an exception of the native conversion or of the rendering of the
\* converted PDF is caught by the chain and leads to the text fallback; it
\* never leaves pptx_to_images.
C15_ChainCatchesStageErrors ==
    conv \in {"not_found", "run_error", "render_error"} =>
        /\ ReachedFallback
        /\ outcome.error.type # "ConversionError"

\* C15 witness: the rendering of the converted PDF raised, and ocr() returned
\* the pages of the text fallback.
C15_Witness ==
    /\ conv = "render_error"
    /\ outcome.kind = "returned"
    /\ image_paths = FallbackImages(doc.slides)

\* C18: in one run of pptx_to_images the text fallback is entered at most
\* once; a failure inside it does not run it again.
C18_FallbackOnce == fallbackRuns <= 1


\* --------------------------------------- claims on the tasks after a failure
\* C16: a failing page cancels no sibling: a task that holds a slot leaves
\* process_image only by its own step, returning or raising its own error;
\* no step of another task and no step of ocr() ends it.
C16_NoCancellation ==
    [][\A k \in Pages :
          tstate[k] \in {"reading", "calling"} =>
              \/ tstate'[k] \in {"reading", "calling"}
              \/ /\ tstate'[k] \in {"done", "failed"}
                 /\ order' = Append(order, k)]_vars

\* C16 witness: ocr() raised on page 1, and page 2, admitted together with
\* page 1, went on and returned its text afterwards.
C16_Witness ==
    /\ pc = "done"
    /\ outcome.error = Exc("APIError", 1)
    /\ concurrency >= 2
    /\ Len(order) >= 2
    /\ order[1] = 1
    /\ order[2] = 2
    /\ tstate[2] = "done"
    /\ ret[2] = Text(image_paths[2])

\* C17: no page task reads its image in the scratch directory after the
\* directory was removed: no task ever fails opening its rendered image.
C17_NoReadAfterRemoval ==
    \A k \in Pages :
        ~(/\ InScratch(image_paths[k])
          /\ tstate[k] = "failed"
          /\ calls[k] = 0)

====
